---- MODULE Spec2Model ----
(***************************************************************************)
(* The standalone frontend of LocalAI (frontend_standalone/main.go) as a   *)
(* state machine.  Three builds of the same server are modelled:           *)
(*   "token"  : main.go lines 1-650    (Usage with Total / BurnedTokens,   *)
(*              /machines, /settings)                                      *)
(*   "period" : main.go lines 652-1174 (Usage with PeriodTotal, getMe      *)
(*              returns *Usage, no status checks)                          *)
(*   "plain"  : the upstream server (unnamed/part_001), no backend calls   *)
(* A request is handled by one goroutine: it blocks on each backend call   *)
(* in turn, so every backend call is one step of the model.                *)
(***************************************************************************)
EXTENDS Integers, Sequences, FiniteSets, TLC

VARIABLES
    req,        \* req[r]: the incoming request (variant, route, cookies, headers, :model)
    pc,         \* pc[r]: where the handler of request r stands
    backend,    \* backend[r]: what the backend answered to each call of r
    calls,      \* calls[r]: the outbound calls r issued, in order
    loc,        \* loc[r]: the handler's local variables
    setCookies, \* setCookies[r]: the Set-Cookie headers written to the response
    logged,     \* logged[r]: the log.Error() messages of the handler
    response    \* response[r]: the response chosen for r

vars == <<req, pc, backend, calls, loc, setCookies, logged, response>>

----------------------------------------------------------------------------
(* Bounds of the model *)

\* longest head list the backend answers
MaxHeads == 2
\* longest data array of /v1/models
MaxModels == 2

\* the requests in flight
Reqs == {"r1"}

----------------------------------------------------------------------------
(* Go values *)

\* a Go slice: nil, or a (possibly empty) sequence of elements
NilSlice == [nil |-> TRUE, elems |-> <<>>]
MkSlice(s) == [nil |-> FALSE, elems |-> s]
len(s) == Len(s.elems)

\* all sequences over S of length at most n
RECURSIVE SeqsUpTo(_, _)
SeqsUpTo(S, n) ==
    IF n = 0 THEN {<<>>}
    ELSE LET shorter == SeqsUpTo(S, n - 1)
         IN shorter \cup {Append(s, x) : s \in {t \in shorter : Len(t) = n - 1}, x \in S}

\* a float64 as an exact rational n/d, d > 0 (the values of the model stay in
\* the range where float64 arithmetic agrees with the exact result)
Rat(n, d) == [n |-> n, d |-> d]
RatMul(a, b) == Rat(a.n * b.n, a.d * b.d)
RatAdd(a, b) == Rat(a.n * b.d + b.n * a.d, a.d * b.d)
RatEq(a, b) == a.n * b.d = b.n * a.d
\* math.Copysign(x, sign)
Copysign(x, sign) ==
    LET ax == IF x.n < 0 THEN Rat(-x.n, x.d) ELSE x
    IN IF sign.n < 0 THEN Rat(-ax.n, ax.d) ELSE ax
\* int(f): the conversion truncates toward zero
TruncInt(a) == IF a.n >= 0 THEN a.n \div a.d ELSE -((-a.n) \div a.d)
\* math.Pow(10, p) for the precisions in use
RECURSIVE Pow10(_)
Pow10(p) == IF p = 0 THEN 1 ELSE 10 * Pow10(p - 1)

\* round without the half: int(num) alone
roundDown(num) == TruncInt(num)

round(num) == TruncInt(RatAdd(num, Copysign(Rat(1, 2), num)))

toFixed(num, precision) ==
    LET output == Pow10(precision)
    IN Rat(round(RatMul(num, Rat(output, 1))), output)

----------------------------------------------------------------------------
(* The data of the program *)

\* http.StatusOK, fiber.StatusOK
StatusOK == 200
\* fiber.StatusInternalServerError
StatusInternalServerError == 500

\* type Usage, type Me of the token-metered build
ZeroUsage == [Total |-> 0, Completion |-> 0, Prompt |-> 0, Limit |-> 0, BurnedTokens |-> 0]
ZeroMe == [Username |-> "", Usage |-> ZeroUsage, Token |-> "", Reason |-> ""]

\* type Usage, type Me of the period-usage build
ZeroPeriodUsage ==
    [AllTimeTotal |-> 0, AllTimeCompletion |-> 0, AllTimePrompt |-> 0,
     PeriodTotal |-> 0, PeriodCompletion |-> 0, PeriodPrompt |-> 0, Limit |-> 0]
ZeroPeriodMe == [Username |-> "", Usage |-> ZeroPeriodUsage]

\* a *Usage: nil, or a pointer to a Usage
NilUsage == [nil |-> TRUE, val |-> ZeroPeriodUsage]
PtrUsage(u) == [nil |-> FALSE, val |-> u]

\* type MachineUsage, type Machines; a Go map is nil or a function on its keys
NoKeys == [k \in {} |-> 0]
NilMap == [nil |-> TRUE, m |-> NoKeys]
MkMap(f) == [nil |-> FALSE, m |-> f]
ZeroMachines == [Machines |-> NilMap, TokensTotal |-> 0, WorktimeTotal |-> Rat(0, 1)]
MachineUsage(tt, tc, tp, timingPrompt, timingCompletion) ==
    [TokensTotal |-> tt, TokensCompletion |-> tc, TokensPrompt |-> tp,
     TimingPrompt |-> Rat(timingPrompt, 1), TimingCompletion |-> Rat(timingCompletion, 1)]

----------------------------------------------------------------------------
(* The requests and the backend's answers the model draws from *)

Variants == {"token", "period", "plain"}

ModelRoutes == {"/chat/:model", "/text2image/:model", "/tts/:model"}
DefaultRoutes == {"/chat/", "/talk/", "/text2image/", "/tts/"}
IndexRoutes == {"/", "/settings"}

\* the routes each build registers with router.Get
RoutesOf(variant) ==
    IF variant = "token" THEN IndexRoutes \cup ModelRoutes \cup DefaultRoutes
    ELSE {"/"} \cup ModelRoutes \cup DefaultRoutes

HeadIds == {"h1", "h2"}
ModelIds == {"m1", "m2"}

AuthTokens == {"", "tokA"}
\* no cookie, a head of the backend's list, a head the backend does not know
HeadCookies == {"", "h1", "hX"}
ContentTypes == {"", "application/json"}
\* no Accept header, any type, html, json only
AcceptHeaders == {"", "*/*", "text/html", "application/json"}
\* the :model parameter: a model of the backend's list, and one that is not
ModelParams == {"m1", "mZ"}

\* The handlers of the plain build read no cookie; only / reads the content
\* type and the Accept header; only the :model routes read the parameter.
Requests ==
    {[variant |-> v, route |-> rt, auth_token |-> a, LocalAIHead |-> h,
      ContentType |-> ct, Accept |-> ac, model |-> m] :
        v \in Variants, rt \in IndexRoutes \cup ModelRoutes \cup DefaultRoutes,
        a \in AuthTokens, h \in HeadCookies,
        ct \in ContentTypes, ac \in AcceptHeaders, m \in ModelParams \cup {""}}

IsRequest(q) ==
    /\ q.route \in RoutesOf(q.variant)
    /\ (q.variant = "plain" => q.auth_token = "" /\ q.LocalAIHead = "")
    /\ (q.route \notin IndexRoutes => q.ContentType = "" /\ q.Accept = "text/html")
    /\ (q.route \in ModelRoutes <=> q.model # "")

\* what the backend answered to one call: a transport error, or a status and a
\* body.  kind is what json.Unmarshal makes of the body: "syntax" (not JSON),
\* "mistyped" (JSON of another shape: the fields decoded so far are kept and
\* an error is returned), "ok"; val is what it decodes to.
NotCalled == [called |-> FALSE]
TransportError(zero) ==
    [called |-> TRUE, err |-> TRUE, status |-> 0, kind |-> "none", val |-> zero]
HttpResponse(status, kind, val) ==
    [called |-> TRUE, err |-> FALSE, status |-> status, kind |-> kind, val |-> val]

HeadsResponses ==
    {TransportError(NilSlice)}
    \cup {HttpResponse(StatusOK, "syntax", NilSlice)}
    \cup {HttpResponse(StatusOK, "ok", MkSlice(s)) : s \in SeqsUpTo(HeadIds, MaxHeads)}
    \cup {HttpResponse(StatusInternalServerError, "syntax", NilSlice),
          HttpResponse(StatusInternalServerError, "ok", MkSlice(<<>>)),
          HttpResponse(StatusInternalServerError, "ok", MkSlice(<<"h1">>))}

MeValues ==
    {[Username |-> "alice",
      Usage |-> [Total |-> t, Completion |-> 10, Prompt |-> 20, Limit |-> l,
                 BurnedTokens |-> 10],
      Token |-> "tk", Reason |-> ""] : t \in {30, 80}, l \in {50, 100}}

MeResponses ==
    {TransportError(ZeroMe)}
    \cup {HttpResponse(StatusOK, "syntax", ZeroMe),
          HttpResponse(StatusOK, "mistyped", [ZeroMe EXCEPT !.Username = "alice"])}
    \cup {HttpResponse(StatusOK, "ok", v) : v \in MeValues}
    \cup {HttpResponse(StatusInternalServerError, "syntax", ZeroMe),
          HttpResponse(StatusInternalServerError, "ok", [ZeroMe EXCEPT !.Reason = "banned"])}

PeriodMeValues ==
    {[Username |-> "alice",
      Usage |-> [AllTimeTotal |-> 200, AllTimeCompletion |-> 90, AllTimePrompt |-> 110,
                 PeriodTotal |-> t, PeriodCompletion |-> 10, PeriodPrompt |-> 20,
                 Limit |-> l]] : t \in {30, 80}, l \in {50, 100}}

PeriodMeResponses ==
    {TransportError(ZeroPeriodMe)}
    \cup {HttpResponse(StatusOK, "syntax", ZeroPeriodMe),
          HttpResponse(StatusOK, "mistyped", [ZeroPeriodMe EXCEPT !.Username = "alice"])}
    \cup {HttpResponse(StatusOK, "ok", v) : v \in PeriodMeValues}
    \cup {HttpResponse(StatusInternalServerError, "syntax", ZeroPeriodMe),
          HttpResponse(StatusInternalServerError, "ok", ZeroPeriodMe)}

\* the machine_usage maps, timings in milliseconds
MachineMaps ==
    {MkMap(NoKeys),
     MkMap([k \in {"gpu1", "gpu2"} |->
              IF k = "gpu1" THEN MachineUsage(25, 10, 15, 49, 150)
              ELSE MachineUsage(15, 5, 10, -50, 12350)])}

MachinesValues ==
    {[Machines |-> mm, TokensTotal |-> tt, WorktimeTotal |-> Rat(w, 1)] :
        mm \in MachineMaps, tt \in {5, 40}, w \in {12345, 50}}

MachinesResponses ==
    {TransportError(ZeroMachines)}
    \cup {HttpResponse(StatusOK, "syntax", ZeroMachines),
          HttpResponse(StatusOK, "mistyped", [ZeroMachines EXCEPT !.TokensTotal = 40])}
    \cup {HttpResponse(StatusOK, "ok", v) : v \in MachinesValues}
    \cup {HttpResponse(StatusInternalServerError, "syntax", ZeroMachines)}

\* schema.ModelsDataResponse: val is its Data, the ids in order
ModelsResponses ==
    {TransportError(NilSlice)}
    \cup {HttpResponse(StatusOK, "syntax", NilSlice)}
    \cup {HttpResponse(StatusOK, "ok", MkSlice(s)) : s \in SeqsUpTo(ModelIds, MaxModels)}
    \cup {HttpResponse(StatusInternalServerError, "syntax", NilSlice),
          HttpResponse(StatusInternalServerError, "ok", NilSlice),
          HttpResponse(StatusInternalServerError, "ok", MkSlice(<<"m2">>))}

----------------------------------------------------------------------------
(* The backend calls: each operator maps the backend's answer to what the
   Go function returns *)

\* a makeModelsRequest that checks the status as getMe does
makeModelsRequestChecked(resp) ==
    IF resp.err THEN [Data |-> NilSlice, err |-> TRUE]
    ELSE IF resp.status # StatusOK THEN [Data |-> NilSlice, err |-> TRUE]
    ELSE IF resp.kind # "ok" THEN [Data |-> NilSlice, err |-> TRUE]
    ELSE [Data |-> resp.val, err |-> FALSE]

\* makeModelsRequest: no status check; the Data of the decoded envelope
makeModelsRequest(resp) ==
    IF resp.err THEN [Data |-> NilSlice, err |-> TRUE]
    ELSE IF resp.kind # "ok" THEN [Data |-> NilSlice, err |-> TRUE]
    ELSE [Data |-> resp.val, err |-> FALSE]

\* the loop of getModels skipping an id it already holds
RECURSIVE rangeIDsDedup(_, _, _)
rangeIDsDedup(acc, data, i) ==
    IF i > Len(data) THEN acc
    ELSE IF \E j \in 1..Len(acc) : acc[j] = data[i]
    THEN rangeIDsDedup(acc, data, i + 1)
    ELSE rangeIDsDedup(Append(acc, data[i]), data, i + 1)

\* for _, v := range modelsResponse.Data { response = append(response, v.ID) }
RECURSIVE rangeIDs(_, _, _)
rangeIDs(acc, data, i) ==
    IF i > Len(data) THEN acc
    ELSE rangeIDs(Append(acc, data[i]), data, i + 1)

\* ... { response = append(response, config.BackendConfig{Name: v.ID}) }
RECURSIVE rangeConfigs(_, _, _)
rangeConfigs(acc, data, i) ==
    IF i > Len(data) THEN acc
    ELSE rangeConfigs(Append(acc, [Name |-> data[i]]), data, i + 1)

getModels(resp) ==
    LET modelsResponse == makeModelsRequest(resp)
    IN IF modelsResponse.err THEN [models |-> NilSlice, err |-> TRUE]
       ELSE [models |-> MkSlice(rangeIDs(<<>>, modelsResponse.Data.elems, 1)),
             err |-> FALSE]

getModelsConfigs(resp) ==
    LET modelsResponse == makeModelsRequest(resp)
    IN IF modelsResponse.err THEN [models |-> NilSlice, err |-> TRUE]
       ELSE [models |-> MkSlice(rangeConfigs(<<>>, modelsResponse.Data.elems, 1)),
             err |-> FALSE]

\* the timing conversion of getMachines, lines 172-177
convertTimings(m) ==
    [m EXCEPT
       !.WorktimeTotal = toFixed(RatMul(m.WorktimeTotal, Rat(1, 1000)), 1),
       !.Machines = [m.Machines EXCEPT !.m =
           [k \in DOMAIN m.Machines.m |->
              [m.Machines.m[k] EXCEPT
                 !.TimingCompletion =
                     toFixed(RatMul(m.Machines.m[k].TimingCompletion, Rat(1, 1000)), 1),
                 !.TimingPrompt =
                     toFixed(RatMul(m.Machines.m[k].TimingPrompt, Rat(1, 1000)), 1)]]]]

getMachines(resp) ==
    IF resp.err THEN [machines |-> ZeroMachines, err |-> TRUE]
    ELSE IF resp.status # StatusOK THEN [machines |-> ZeroMachines, err |-> TRUE]
    ELSE IF resp.kind = "syntax" THEN [machines |-> ZeroMachines, err |-> TRUE]
    ELSE IF resp.kind = "mistyped" THEN [machines |-> resp.val, err |-> TRUE]
    ELSE [machines |-> convertTimings(resp.val), err |-> FALSE]

\* getMe of the token-metered build
getMe(resp) ==
    IF resp.err THEN [me |-> ZeroMe, err |-> TRUE]
    ELSE IF resp.status # StatusOK THEN [me |-> ZeroMe, err |-> TRUE]
    ELSE IF resp.kind = "syntax" THEN [me |-> ZeroMe, err |-> TRUE]
    ELSE IF resp.kind = "mistyped" THEN [me |-> resp.val, err |-> TRUE]
    ELSE [me |-> resp.val, err |-> FALSE]

\* getMe of the period-usage build: no status check, a nil *Usage on error
getMePeriod(resp) ==
    IF resp.err THEN [username |-> "", usage |-> NilUsage, err |-> TRUE]
    ELSE IF resp.kind # "ok" THEN [username |-> "", usage |-> NilUsage, err |-> TRUE]
    ELSE [username |-> resp.val.Username, usage |-> PtrUsage(resp.val.Usage),
          err |-> FALSE]

\* what getHeads hands back: the returned values, whether it panicked, and the
\* cookies it wrote with c.Cookie
HeadsError == [heads |-> NilSlice, head |-> "", err |-> TRUE, panic |-> FALSE,
               cookies |-> <<>>]
HeadCookie(head) == [Name |-> "LocalAI-Head", Value |-> head, Path |-> "/", Secure |-> FALSE]

\* selectHead without its c.Cookie call
selectHeadNoCookie(c, heads) ==
    LET head == c.LocalAIHead
    IN IF head = "" THEN
           IF len(heads) = 0 THEN
               [heads |-> heads, head |-> "", err |-> FALSE, panic |-> TRUE,
                cookies |-> <<>>]
           ELSE [heads |-> heads, head |-> heads.elems[1], err |-> FALSE,
                 panic |-> FALSE, cookies |-> <<>>]
       ELSE [heads |-> heads, head |-> head, err |-> FALSE, panic |-> FALSE,
             cookies |-> <<>>]

\* selectHead with the c.Cookie call after the if, not inside it
selectHeadAlwaysSet(c, heads) ==
    LET head == c.LocalAIHead
    IN IF head = "" THEN
           IF len(heads) = 0 THEN
               [heads |-> heads, head |-> "", err |-> FALSE, panic |-> TRUE,
                cookies |-> <<>>]
           ELSE [heads |-> heads, head |-> heads.elems[1], err |-> FALSE,
                 panic |-> FALSE, cookies |-> <<HeadCookie(heads.elems[1])>>]
       ELSE [heads |-> heads, head |-> head, err |-> FALSE, panic |-> FALSE,
             cookies |-> <<HeadCookie(head)>>]

\* a selectHead that keeps the cookie only when the backend lists it
selectHeadValidated(c, heads) ==
    LET head == c.LocalAIHead
        listed == \E i \in 1..len(heads) : heads.elems[i] = head
    IN IF head # "" /\ listed
       THEN [heads |-> heads, head |-> head, err |-> FALSE, panic |-> FALSE,
             cookies |-> <<>>]
       ELSE IF len(heads) = 0
       THEN [heads |-> heads, head |-> "", err |-> FALSE, panic |-> head = "",
             cookies |-> <<>>]
       ELSE [heads |-> heads, head |-> heads.elems[1], err |-> FALSE,
             panic |-> FALSE, cookies |-> <<HeadCookie(heads.elems[1])>>]

\* lines 246-265 and 814-833: the head from the cookie, or heads[0] and a cookie
selectHead(c, heads) ==
    LET head == c.LocalAIHead
    IN IF head = "" THEN
           IF len(heads) = 0 THEN
               \* heads[0]: index out of range
               [heads |-> heads, head |-> "", err |-> FALSE, panic |-> TRUE,
                cookies |-> <<>>]
           ELSE [heads |-> heads, head |-> heads.elems[1], err |-> FALSE,
                 panic |-> FALSE, cookies |-> <<HeadCookie(heads.elems[1])>>]
       ELSE [heads |-> heads, head |-> head, err |-> FALSE, panic |-> FALSE,
             cookies |-> <<>>]

\* getHeads of the token-metered build
getHeads(c, resp) ==
    IF resp.err THEN HeadsError
    ELSE IF resp.status # StatusOK THEN HeadsError
    ELSE IF resp.kind # "ok" THEN HeadsError
    ELSE selectHead(c, resp.val)

\* getHeads of the period-usage build: no status check
getHeadsPeriod(c, resp) ==
    IF resp.err THEN HeadsError
    ELSE IF resp.kind # "ok" THEN HeadsError
    ELSE selectHead(c, resp.val)

----------------------------------------------------------------------------
(* The handlers *)

\* API(&config.ApplicationConfig{}): the zero configuration
AppConfig == [Debug |-> FALSE, OpaqueErrors |-> FALSE]

\* os.Getenv("CONTRACT_ADDRESS"), os.Getenv("CONTRACT_ABI")
contractAddress == "0xC0"
contractABI == "[abi]"

\* laihttputils.BaseURL(c)
BaseURL(c) == "http://frontend/"

\* c.Accepts("html"): the offer when the Accept header is absent or admits
\* text/html, "" otherwise
Accepts(c, offer) ==
    IF c.Accept \in {"", "*/*", "text/html"} THEN offer ELSE ""

NoResponse == [kind |-> "none"]
\* c.Status(status).JSON(v)
JSON(status, v) == [kind |-> "json", status |-> status, body |-> v]
\* c.Render(template, v)
Render(template, v) ==
    [kind |-> "render", status |-> StatusOK, template |-> template, body |-> v]
\* c.Redirect(location): 302 Found
Redirect(location) == [kind |-> "redirect", status |-> 302, location |-> location]

\* fiberCfg.ErrorHandler for an error that is no *fiber.Error
ErrorHandler(message) ==
    IF AppConfig.OpaqueErrors
    THEN [kind |-> "error", status |-> 500, body |-> ""]
    ELSE JSON(StatusInternalServerError,
              [error |-> [message |-> message, code |-> StatusInternalServerError]])

\* a build whose panics nobody recovers: the process dies
PanickedUnrecovered(message) == [kind |-> "crash"]

\* a panic in a handler: recover.New() turns it into an error for the
\* ErrorHandler; without the middleware (Debug) the process dies
Panicked(message) ==
    IF AppConfig.Debug THEN [kind |-> "crash"] ELSE ErrorHandler(message)

\* the balance clamped at 0
BalanceClamped(usage) ==
    IF usage.Limit - usage.Total < 0 THEN 0 ELSE usage.Limit - usage.Total

\* me.Usage.Limit - me.Usage.Total
Balance(usage) == usage.Limit - usage.Total
\* usage.Limit - usage.PeriodTotal
PeriodBalance(usage) == usage.Limit - usage.PeriodTotal
\* machines.TokensTotal - me.Usage.BurnedTokens
ToBurn(machines, usage) == machines.TokensTotal - usage.BurnedTokens

\* the title and template of the pages with a model
TitleOf(route, model) ==
    CASE route \in {"/chat/:model", "/chat/"} -> "LocalAI - Chat with " \o model
      [] route = "/talk/" -> "LocalAI - Talk"
      [] route \in {"/text2image/:model", "/text2image/", "/tts/:model"} ->
            "LocalAI - Generate images with " \o model
      [] route = "/tts/" -> "LocalAI - Generate audio with " \o model

TemplateOf(variant, route) ==
    CASE route = "/" -> IF variant = "plain" THEN "views/index" ELSE "views/standalone_index"
      [] route = "/settings" -> "views/standalone_settings"
      [] route \in {"/chat/:model", "/chat/"} -> "views/chat"
      [] route = "/talk/" -> "views/talk"
      [] route \in {"/text2image/:model", "/text2image/"} -> "views/text2image"
      [] route \in {"/tts/:model", "/tts/"} -> "views/tts"

\* which routes list models as config records (getModelsConfigs,
\* cl.GetAllBackendConfigs) and which as plain ids (getModels, services.ListModels)
UsesConfigs(variant, route) ==
    IF variant = "period"
    THEN route \in {"/text2image/", "/tts/:model", "/tts/"}
    ELSE route \in {"/text2image/:model", "/text2image/", "/tts/:model", "/tts/"}

\* a handler that takes the last model of the list
ModelOfLast(c, l) ==
    IF c.route \in ModelRoutes THEN c.model
    ELSE IF UsesConfigs(c.variant, c.route)
    THEN l.models.elems[Len(l.models.elems)].Name
    ELSE l.models.elems[Len(l.models.elems)]

\* the Model of the view: the path parameter, or the first model
ModelOf(c, l) ==
    IF c.route \in ModelRoutes THEN c.model
    ELSE IF UsesConfigs(c.variant, c.route) THEN l.models.elems[1].Name
    ELSE l.models.elems[1]

\* the fiber.Map of the token-metered build
TokenSummary(c, l) ==
    LET identity == [BaseURL |-> BaseURL(c), Username |-> l.me.Username,
                     Usage |-> l.me.Usage, Balance |-> Balance(l.me.Usage),
                     Reason |-> l.me.Reason, Heads |-> l.heads, Head |-> l.head]
    IN IF c.route = "/" THEN
           identity @@ [Token |-> l.me.Token, ToBurn |-> ToBurn(l.machines, l.me.Usage),
                        Machines |-> l.machines]
       ELSE IF c.route = "/settings" THEN
           identity @@ [Token |-> l.me.Token, ToBurn |-> ToBurn(l.machines, l.me.Usage),
                        Machines |-> l.machines, ContractABI |-> contractABI,
                        ContractAddress |-> contractAddress]
       ELSE identity @@ [Title |-> TitleOf(c.route, ModelOf(c, l)),
                         ModelsConfig |-> l.models, Model |-> ModelOf(c, l)]

\* the fiber.Map of the period-usage build, after usage was dereferenced
PeriodSummary(c, l) ==
    LET identity == [Username |-> l.username, Usage |-> l.usage,
                     Balance |-> PeriodBalance(l.usage.val),
                     Heads |-> l.heads, Head |-> l.head]
    IN IF c.route = "/" THEN identity @@ [Title |-> "LocalAI", BaseURL |-> BaseURL(c)]
       ELSE IF c.route = "/chat/:model" THEN
           identity @@ [Title |-> TitleOf(c.route, ModelOf(c, l)),
                        ModelsConfig |-> l.models, Model |-> ModelOf(c, l)]
       ELSE identity @@ [Title |-> TitleOf(c.route, ModelOf(c, l)), BaseURL |-> BaseURL(c),
                         ModelsConfig |-> l.models, Model |-> ModelOf(c, l)]

\* the fiber.Map of the plain build
PlainSummary(c, l) ==
    IF c.route = "/" THEN
        [Title |-> "LocalAI API - v", Version |-> "v", BaseURL |-> BaseURL(c),
         Models |-> l.loose, ModelsConfig |-> l.models, IsP2PEnabled |-> FALSE]
    ELSE [Title |-> TitleOf(c.route, ModelOf(c, l)),
          BaseURL |-> BaseURL(c), ModelsConfig |-> l.models, Model |-> ModelOf(c, l),
          Version |-> "v", IsP2PEnabled |-> FALSE]

Summary(c, l) ==
    CASE c.variant = "token" -> TokenSummary(c, l)
      [] c.variant = "period" -> PeriodSummary(c, l)
      [] c.variant = "plain" -> PlainSummary(c, l)

\* the content negotiation of / and /settings
WantsJSON(c) == c.ContentType = "application/json" \/ Accepts(c, "html") = ""

\* the tail of a handler with the balance computed before the empty-list check
HandleDerefFirst(c, l) ==
    IF c.variant = "period" /\ l.usage.nil
    THEN Panicked("invalid memory address or nil pointer dereference")
    ELSE IF c.route \in DefaultRoutes /\ len(l.models) = 0
    THEN Redirect(BaseURL(c))
    ELSE IF c.route \in IndexRoutes /\ WantsJSON(c)
    THEN JSON(StatusOK, Summary(c, l))
    ELSE Render(TemplateOf(c.variant, c.route), Summary(c, l))

\* the tail of a handler, after its last backend call returned
Handle(c, l) ==
    IF c.route \in DefaultRoutes /\ len(l.models) = 0
    THEN Redirect(BaseURL(c))
    ELSE IF c.variant = "period" /\ l.usage.nil
    THEN Panicked("invalid memory address or nil pointer dereference")
    ELSE IF c.route \in IndexRoutes /\ WantsJSON(c)
    THEN JSON(StatusOK, Summary(c, l))
    ELSE Render(TemplateOf(c.variant, c.route), Summary(c, l))

----------------------------------------------------------------------------
(* The state machine *)

NoCalls == [heads |-> NotCalled, me |-> NotCalled, machines |-> NotCalled,
            models |-> NotCalled]

\* the handler's variables before their assignment
NoLocals ==
    [heads |-> NilSlice, head |-> "", me |-> ZeroMe, username |-> "",
     usage |-> NilUsage, machines |-> ZeroMachines, models |-> NilSlice,
     loose |-> NilSlice]

\* a router whose handlers start with the identity call
EntrySkippingHeads(c) == IF c.variant = "plain" THEN "listModels" ELSE "getMe"

\* the first step of the handler of a route
Entry(c) == IF c.variant = "plain" THEN "listModels" ELSE "getHeads"

\* no request in hand
NoRequest ==
    [variant |-> "none", route |-> "", auth_token |-> "", LocalAIHead |-> "",
     ContentType |-> "", Accept |-> "", model |-> ""]

\* the server is listening and has no request in hand
Init ==
    /\ req = [r \in Reqs |-> NoRequest]
    /\ pc = [r \in Reqs |-> "idle"]
    /\ backend = [r \in Reqs |-> NoCalls]
    /\ calls = [r \in Reqs |-> <<>>]
    /\ loc = [r \in Reqs |-> NoLocals]
    /\ setCookies = [r \in Reqs |-> <<>>]
    /\ logged = [r \in Reqs |-> <<>>]
    /\ response = [r \in Reqs |-> NoResponse]

\* a request arrives and the router picks the handler of its route
Serve(r) ==
    /\ pc[r] = "idle"
    /\ \E c \in {q \in Requests : IsRequest(q)} :
         /\ req' = [req EXCEPT ![r] = c]
         /\ pc' = [pc EXCEPT ![r] = Entry(c)]
    /\ UNCHANGED <<backend, calls, loc, setCookies, logged, response>>

\* an agent that sets no auth_token cookie on the outbound request
CallAnonymous(c, endpoint) ==
    IF endpoint = "/v1/models"
    THEN [endpoint |-> endpoint, auth_token |-> "", LocalAIHead |-> c.LocalAIHead]
    ELSE [endpoint |-> endpoint, auth_token |-> ""]

\* an outbound call: the endpoint and the cookies set on the agent's request
Call(c, endpoint) ==
    IF endpoint = "/v1/models"
    THEN [endpoint |-> endpoint, auth_token |-> c.auth_token, LocalAIHead |-> c.LocalAIHead]
    ELSE [endpoint |-> endpoint, auth_token |-> c.auth_token]

\* if err != nil { log.Error().Err(err).Msg(msg) }
LogIf(log, err, msg) == IF err THEN Append(log, msg) ELSE log

\* a build that keeps heads and head in package-level variables: what one
\* request resolves is what every request in hand reads afterwards
GetHeadsShared(r) ==
    /\ pc[r] = "getHeads"
    /\ \E resp \in HeadsResponses :
         LET c == req[r]
             got == IF c.variant = "token" THEN getHeads(c, resp)
                    ELSE getHeadsPeriod(c, resp)
         IN /\ backend' = [backend EXCEPT ![r].heads = resp]
            /\ calls' = [calls EXCEPT ![r] = Append(@, Call(c, "/heads"))]
            /\ setCookies' = [setCookies EXCEPT ![r] = @ \o got.cookies]
            /\ IF got.panic
               THEN /\ response' = [response EXCEPT
                                      ![r] = Panicked("index out of range [0] with length 0")]
                    /\ pc' = [pc EXCEPT ![r] = "done"]
                    /\ UNCHANGED <<loc, logged>>
               ELSE /\ loc' = [q \in DOMAIN loc |->
                                 [loc[q] EXCEPT !.heads = got.heads, !.head = got.head]]
                    /\ logged' = [logged EXCEPT ![r] = LogIf(@, got.err, "getHeads")]
                    /\ pc' = [pc EXCEPT ![r] = "getMe"]
                    /\ UNCHANGED response
    /\ UNCHANGED req

\* heads, head, err := getHeads(c), the first statement of every handler
GetHeads(r) ==
    /\ pc[r] = "getHeads"
    /\ \E resp \in HeadsResponses :
         LET c == req[r]
             got == IF c.variant = "token" THEN getHeads(c, resp)
                    ELSE getHeadsPeriod(c, resp)
         IN /\ backend' = [backend EXCEPT ![r].heads = resp]
            /\ calls' = [calls EXCEPT ![r] = Append(@, Call(c, "/heads"))]
            /\ setCookies' = [setCookies EXCEPT ![r] = @ \o got.cookies]
            /\ IF got.panic
               THEN /\ response' = [response EXCEPT
                                      ![r] = Panicked("index out of range [0] with length 0")]
                    /\ pc' = [pc EXCEPT ![r] = "done"]
                    /\ UNCHANGED <<loc, logged>>
               ELSE /\ loc' = [loc EXCEPT ![r].heads = got.heads, ![r].head = got.head]
                    /\ logged' = [logged EXCEPT ![r] = LogIf(@, got.err, "getHeads")]
                    /\ pc' = [pc EXCEPT ![r] = "getMe"]
                    /\ UNCHANGED response
    /\ UNCHANGED req

\* me, _ := getMe(c) of / and /settings, me, err := getMe(c) elsewhere
GetMeToken(r) ==
    /\ pc[r] = "getMe"
    /\ req[r].variant = "token"
    /\ \E resp \in MeResponses :
         LET c == req[r]
             got == getMe(resp)
         IN /\ backend' = [backend EXCEPT ![r].me = resp]
            /\ calls' = [calls EXCEPT ![r] = Append(@, Call(c, "/me"))]
            /\ loc' = [loc EXCEPT ![r].me = got.me]
            /\ logged' = [logged EXCEPT
                            ![r] = IF c.route \in IndexRoutes THEN @
                                   ELSE LogIf(@, got.err, "getMe")]
            /\ pc' = [pc EXCEPT ![r] = IF c.route \in IndexRoutes THEN "getMachines"
                                       ELSE "getModels"]
    /\ UNCHANGED <<req, setCookies, response>>

\* username, usage, err := getMe(c)
GetMePeriod(r) ==
    /\ pc[r] = "getMe"
    /\ req[r].variant = "period"
    /\ \E resp \in PeriodMeResponses :
         LET c == req[r]
             got == getMePeriod(resp)
         IN /\ backend' = [backend EXCEPT ![r].me = resp]
            /\ calls' = [calls EXCEPT ![r] = Append(@, Call(c, "/me"))]
            /\ loc' = [loc EXCEPT ![r].username = got.username, ![r].usage = got.usage]
            /\ logged' = [logged EXCEPT ![r] = LogIf(@, got.err, "getMe")]
            /\ pc' = [pc EXCEPT ![r] = IF c.route = "/" THEN "respond" ELSE "getModels"]
    /\ UNCHANGED <<req, setCookies, response>>

\* machines, _ := getMachines(c)
GetMachines(r) ==
    /\ pc[r] = "getMachines"
    /\ \E resp \in MachinesResponses :
         LET got == getMachines(resp)
         IN /\ backend' = [backend EXCEPT ![r].machines = resp]
            /\ calls' = [calls EXCEPT ![r] = Append(@, Call(req[r], "/machines"))]
            /\ loc' = [loc EXCEPT ![r].machines = got.machines]
            /\ pc' = [pc EXCEPT ![r] = "respond"]
    /\ UNCHANGED <<req, setCookies, logged, response>>

\* a makeModelsRequest that forwards the head getHeads has just selected
GetModelsSelectedHead(r) ==
    /\ pc[r] = "getModels"
    /\ \E resp \in ModelsResponses :
         LET c == req[r]
             got == IF UsesConfigs(c.variant, c.route) THEN getModelsConfigs(resp)
                    ELSE getModels(resp)
         IN /\ backend' = [backend EXCEPT ![r].models = resp]
            /\ calls' = [calls EXCEPT
                           ![r] = Append(@, [Call(c, "/v1/models") EXCEPT
                                               !.LocalAIHead = loc[r].head])]
            /\ loc' = [loc EXCEPT ![r].models = got.models]
            /\ logged' = [logged EXCEPT ![r] = LogIf(@, got.err, "getModels")]
            /\ pc' = [pc EXCEPT ![r] = "respond"]
    /\ UNCHANGED <<req, setCookies, response>>

\* models, err := getModels(c) or getModelsConfigs(c)
GetModels(r) ==
    /\ pc[r] = "getModels"
    /\ \E resp \in ModelsResponses :
         LET c == req[r]
             got == IF UsesConfigs(c.variant, c.route) THEN getModelsConfigs(resp)
                    ELSE getModels(resp)
         IN /\ backend' = [backend EXCEPT ![r].models = resp]
            /\ calls' = [calls EXCEPT ![r] = Append(@, Call(c, "/v1/models"))]
            /\ loc' = [loc EXCEPT ![r].models = got.models]
            /\ logged' = [logged EXCEPT ![r] = LogIf(@, got.err, "getModels")]
            /\ pc' = [pc EXCEPT ![r] = "respond"]
    /\ UNCHANGED <<req, setCookies, response>>

\* the plain build lists the models of the process itself: services.ListModels
\* gives ids, cl.GetAllBackendConfigs() gives config records
ListModels(r) ==
    /\ pc[r] = "listModels"
    /\ \E ids \in SeqsUpTo(ModelIds, MaxModels), nil \in BOOLEAN,
          loose \in {NilSlice, MkSlice(<<"m1">>)} :
         LET c == req[r]
             list == IF nil THEN NilSlice
                     ELSE IF UsesConfigs(c.variant, c.route) \/ c.route = "/"
                     THEN MkSlice(rangeConfigs(<<>>, ids, 1))
                     ELSE MkSlice(rangeIDs(<<>>, ids, 1))
         IN /\ (nil => ids = <<>>)
            /\ (c.route # "/" => loose = NilSlice)
            /\ loc' = [loc EXCEPT ![r].models = list, ![r].loose = loose]
            /\ pc' = [pc EXCEPT ![r] = "respond"]
    /\ UNCHANGED <<req, backend, calls, setCookies, logged, response>>

\* a redirect that resets the response and with it the cookies written
\* before it
RespondDroppingCookies(r) ==
    /\ pc[r] = "respond"
    /\ response' = [response EXCEPT ![r] = Handle(req[r], loc[r])]
    /\ setCookies' = [setCookies EXCEPT
                        ![r] = IF Handle(req[r], loc[r]).kind = "redirect"
                               THEN <<>> ELSE @]
    /\ pc' = [pc EXCEPT ![r] = "done"]
    /\ UNCHANGED <<req, backend, calls, loc, logged>>

\* the rest of the handler: the redirect, the summary, the JSON or the page
Respond(r) ==
    /\ pc[r] = "respond"
    /\ response' = [response EXCEPT ![r] = Handle(req[r], loc[r])]
    /\ pc' = [pc EXCEPT ![r] = "done"]
    /\ UNCHANGED <<req, backend, calls, loc, setCookies, logged>>

\* the response is sent; the server is ready for the next request, unless
\* the process died
Finish(r) ==
    /\ pc[r] = "done"
    /\ response[r].kind # "crash"
    /\ req' = [req EXCEPT ![r] = NoRequest]
    /\ pc' = [pc EXCEPT ![r] = "idle"]
    /\ backend' = [backend EXCEPT ![r] = NoCalls]
    /\ calls' = [calls EXCEPT ![r] = <<>>]
    /\ loc' = [loc EXCEPT ![r] = NoLocals]
    /\ setCookies' = [setCookies EXCEPT ![r] = <<>>]
    /\ logged' = [logged EXCEPT ![r] = <<>>]
    /\ response' = [response EXCEPT ![r] = NoResponse]

Next ==
    \E r \in Reqs :
        \/ Serve(r)
        \/ GetHeads(r)
        \/ GetMeToken(r)
        \/ GetMePeriod(r)
        \/ GetMachines(r)
        \/ GetModels(r)
        \/ ListModels(r)
        \/ Respond(r)
        \/ Finish(r)

Spec == Init /\ [][Next]_vars

----------------------------------------------------------------------------
(* What the claims speak of *)

\* the call of r to one endpoint failed: transport error, non-success status
\* or a body that does not decode
Failed(resp) ==
    resp.called /\ (resp.err \/ resp.status # StatusOK \/ resp.kind # "ok")
\* the call was answered 200 with a body that decodes
Succeeded(resp) ==
    resp.called /\ ~resp.err /\ resp.status = StatusOK /\ resp.kind = "ok"

AnyCallFailed(r) ==
    \/ Failed(backend[r].heads)
    \/ Failed(backend[r].me)
    \/ Failed(backend[r].machines)
    \/ Failed(backend[r].models)

\* the response of a recovered panic, or the death of the process
IsPanic(resp) ==
    \/ resp.kind = "crash"
    \/ resp.kind \in {"json", "error"} /\ resp.status = StatusInternalServerError

\* a page, the JSON view model, or a redirect
IsServed(resp) ==
    \/ resp.kind = "render"
    \/ resp.kind = "redirect"
    \/ resp.kind = "json" /\ resp.status = StatusOK

Elems(s) == {s.elems[i] : i \in 1..Len(s.elems)}

\* C1: whatever backend calls of a request fail, the request ends in a page,
\* the JSON view model or a redirect, never in a panic or a 500.
C1_EveryFailureTolerated ==
    \A r \in Reqs :
        pc[r] = "done" /\ AnyCallFailed(r) => IsServed(response[r])

\* C2: with no LocalAI-Head cookie and a successful /heads call answering a
\* non-empty list, the selected head is the first of the list and the
\* response sets the LocalAI-Head cookie to exactly that value.
C2_DefaultHeadIsFirstAndSet ==
    \A r \in Reqs :
        ( /\ req[r].LocalAIHead = ""
          /\ Succeeded(backend[r].heads)
          /\ len(backend[r].heads.val) > 0 )
        => /\ loc[r].head = backend[r].heads.val.elems[1]
           /\ Len(setCookies[r]) = 1
           /\ setCookies[r][1].Name = "LocalAI-Head"
           /\ setCookies[r][1].Value = backend[r].heads.val.elems[1]

\* a request without head cookie is answered while the backend lists h2 first
C2_Witness ==
    \E r \in Reqs :
        /\ pc[r] = "done"
        /\ req[r].LocalAIHead = ""
        /\ Succeeded(backend[r].heads)
        /\ backend[r].heads.val.elems = <<"h2", "h1">>
        /\ loc[r].head = "h2"

\* C3: with a LocalAI-Head cookie whose value is in the list a successful
\* /heads call answered, the resolved head is the cookie value unchanged and
\* the response sets no LocalAI-Head cookie.
C3_KnownCookieIsKept ==
    \A r \in Reqs :
        ( /\ req[r].LocalAIHead # ""
          /\ Succeeded(backend[r].heads)
          /\ req[r].LocalAIHead \in Elems(backend[r].heads.val) )
        => /\ loc[r].head = req[r].LocalAIHead
           /\ setCookies[r] = <<>>

\* a request with cookie h1 is answered while the backend lists h2 before h1
C3_Witness ==
    \E r \in Reqs :
        /\ pc[r] = "done"
        /\ req[r].LocalAIHead = "h1"
        /\ Succeeded(backend[r].heads)
        /\ backend[r].heads.val.elems = <<"h2", "h1">>

\* C4: when /heads succeeds with an empty list and the request has no head
\* cookie, head resolution does not panic: the selected head is empty, no
\* cookie is written and the request goes on.
C4_EmptyHeadListDoesNotPanic ==
    \A r \in Reqs :
        ( /\ req[r].LocalAIHead = ""
          /\ Succeeded(backend[r].heads)
          /\ len(backend[r].heads.val) = 0 )
        => /\ loc[r].head = ""
           /\ setCookies[r] = <<>>
           /\ ~IsPanic(response[r])

\* the model list of a default route is resolved once the handler has passed
\* its models call (the plain build lists them locally)
ModelsResolved(r) ==
    /\ req[r].route \in DefaultRoutes
    /\ pc[r] \in {"respond", "done"}
    /\ (req[r].variant # "plain" => backend[r].models.called)

\* C5: on /chat/, /talk/, /text2image/ and /tts/, whenever the resolved model
\* list is empty (an empty data array, or nil after a failed call), the
\* response is a redirect to BaseURL: no template is rendered and no element
\* of the list is indexed.
C5_EmptyModelListRedirects ==
    \A r \in Reqs :
        pc[r] = "done" /\ ModelsResolved(r) /\ len(loc[r].models) = 0
        => /\ response[r].kind = "redirect"
           /\ response[r].location = BaseURL(req[r])

\* /tts/ of the period-usage build is answered after both /me and /v1/models
\* failed
C5_Witness ==
    \E r \in Reqs :
        /\ pc[r] = "done"
        /\ req[r].route = "/tts/"
        /\ req[r].variant = "period"
        /\ Failed(backend[r].me)
        /\ Failed(backend[r].models)
        /\ loc[r].models.nil
        /\ response[r].kind = "redirect"

\* the Accept header admits an html representation (an absent header admits
\* every type)
AdmitsHtml(accept) == accept \in {"", "*/*", "text/html"}

\* the view model of / or /settings, whatever its representation
IsIndexView(body) == "BaseURL" \in DOMAIN body

\* C6: on / and /settings the response is the JSON view model with status 200
\* exactly when the Content-Type is application/json or the Accept header
\* admits no html; in every other case the HTML template is rendered, from
\* the same view-model fields.
C6_NegotiationDecidesRepresentation ==
    \A r \in Reqs :
        pc[r] = "done" /\ req[r].route \in IndexRoutes
        => IF req[r].ContentType = "application/json" \/ ~AdmitsHtml(req[r].Accept)
           THEN /\ response[r].kind = "json"
                /\ response[r].status = StatusOK
                /\ IsIndexView(response[r].body)
           ELSE /\ response[r].kind = "render"
                /\ IsIndexView(response[r].body)

\* C7: for a /v1/models answer with a well-formed data array of length N,
\* getModels and getModelsConfigs return exactly N entries, the i-th carrying
\* the i-th id (as the entry itself or as its Name): no reordering,
\* deduplication or filtering.
C7_ModelsProjectionKeepsOrder ==
    \A r \in Reqs :
        ( /\ backend[r].models.called
          /\ ~backend[r].models.err
          /\ backend[r].models.kind = "ok" )
        => LET data == backend[r].models.val.elems
               out == loc[r].models
           IN /\ ~out.nil
              /\ Len(out.elems) = Len(data)
              /\ \A i \in 1..Len(data) :
                    IF UsesConfigs(req[r].variant, req[r].route)
                    THEN out.elems[i] = [Name |-> data[i]]
                    ELSE out.elems[i] = data[i]

\* the backend listed m2 before m1 and the handler holds the ids in that order
C7_Witness ==
    \E r \in Reqs :
        /\ backend[r].models.called
        /\ ~backend[r].models.err
        /\ backend[r].models.kind = "ok"
        /\ backend[r].models.val.elems = <<"m2", "m1">>
        /\ req[r].route = "/chat/"
        /\ loc[r].models.elems = <<"m2", "m1">>

\* C8: in every build, getMe returns a zero-valued identity (empty username,
\* all usage counters 0) on a transport error and on a non-success status,
\* and the handler goes on to render with it.
C8_FailedIdentityIsZero ==
    \A r \in Reqs :
        ( /\ backend[r].me.called
          /\ (backend[r].me.err \/ backend[r].me.status # StatusOK) )
        => /\ IF req[r].variant = "token"
              THEN loc[r].me = ZeroMe
              ELSE /\ loc[r].username = ""
                   /\ loc[r].usage = PtrUsage(ZeroPeriodUsage)
           /\ (pc[r] = "done" => IsServed(response[r]))

\* the response carries a view model
HasView(resp) ==
    \/ resp.kind = "render"
    \/ resp.kind = "json" /\ resp.status = StatusOK

\* C9: in every view model that carries Balance, Balance is Limit - Total
\* (Limit - PeriodTotal in the period-usage build) as plain integer
\* arithmetic, negative when the usage exceeds the limit, never clamped to 0.
C9_BalanceIsRawDifference ==
    \A r \in Reqs :
        ( /\ pc[r] = "done"
          /\ HasView(response[r])
          /\ "Balance" \in DOMAIN response[r].body )
        => LET view == response[r].body
           IN IF req[r].variant = "token"
              THEN view.Balance = view.Usage.Limit - view.Usage.Total
              ELSE view.Balance = view.Usage.val.Limit - view.Usage.val.PeriodTotal

\* a page whose identity has limit 50 and total 80 shows the balance -30
C9_Witness ==
    \E r \in Reqs :
        /\ pc[r] = "done"
        /\ HasView(response[r])
        /\ req[r].variant = "token"
        /\ response[r].body.Usage.Limit = 50
        /\ response[r].body.Usage.Total = 80
        /\ response[r].body.Balance = -30

\* milliseconds to tenths of a second, half away from zero
TenthsOfSeconds(ms) ==
    IF ms >= 0 THEN (ms + 50) \div 100 ELSE -((50 - ms) \div 100)

\* the timing t holds ms milliseconds as seconds with one decimal
IsRoundedSeconds(t, ms) == t.d = 10 /\ t.n = TenthsOfSeconds(ms.n)

\* C10: after a successful /machines call, WorktimeTotal and every machine's
\* TimingPrompt and TimingCompletion are the millisecond input in seconds,
\* rounded to one decimal with half away from zero; the token counters and
\* the machine names are unchanged.
C10_TimingsAreRoundedSeconds ==
    \A r \in Reqs :
        Succeeded(backend[r].machines)
        => LET in == backend[r].machines.val
               out == loc[r].machines
           IN /\ IsRoundedSeconds(out.WorktimeTotal, in.WorktimeTotal)
              /\ out.TokensTotal = in.TokensTotal
              /\ out.Machines.nil = in.Machines.nil
              /\ DOMAIN out.Machines.m = DOMAIN in.Machines.m
              /\ \A k \in DOMAIN in.Machines.m :
                    /\ IsRoundedSeconds(out.Machines.m[k].TimingPrompt,
                                        in.Machines.m[k].TimingPrompt)
                    /\ IsRoundedSeconds(out.Machines.m[k].TimingCompletion,
                                        in.Machines.m[k].TimingCompletion)
                    /\ out.Machines.m[k].TokensTotal = in.Machines.m[k].TokensTotal
                    /\ out.Machines.m[k].TokensCompletion
                           = in.Machines.m[k].TokensCompletion
                    /\ out.Machines.m[k].TokensPrompt = in.Machines.m[k].TokensPrompt

\* 12345 ms of work time are shown as 12.3 s, next to a machine whose 150 ms
\* became 0.2 s and one whose -50 ms became -0.1 s
C10_Witness ==
    \E r \in Reqs :
        /\ Succeeded(backend[r].machines)
        /\ backend[r].machines.val.WorktimeTotal = Rat(12345, 1)
        /\ loc[r].machines.WorktimeTotal = Rat(123, 10)
        /\ "gpu1" \in DOMAIN loc[r].machines.Machines.m
        /\ loc[r].machines.Machines.m["gpu1"].TimingCompletion = Rat(2, 10)
        /\ loc[r].machines.Machines.m["gpu2"].TimingPrompt = Rat(-1, 10)

\* heads[0] of getHeads is evaluated on an empty list: the request of r has
\* no head cookie and the /heads answer passed every check of the build with
\* an empty list
HeadIndexPanics(r) ==
    /\ backend[r].heads.called
    /\ (IF req[r].variant = "token" THEN getHeads(req[r], backend[r].heads)
        ELSE getHeadsPeriod(req[r], backend[r].heads)).panic

\* the handler of the period-usage build reads usage.Limit of a nil *Usage:
\* getMe failed and the handler did not redirect before building the summary
NilUsagePanics(r) ==
    /\ pc[r] = "done"
    /\ req[r].variant = "period"
    /\ ~HeadIndexPanics(r)
    /\ loc[r].usage.nil
    /\ ~(req[r].route \in DefaultRoutes /\ len(loc[r].models) = 0)

\* the JSON error envelope {error: {message, code}} with status and code 500
IsErrorEnvelope(resp) ==
    /\ resp.kind = "json"
    /\ resp.status = StatusInternalServerError
    /\ DOMAIN resp.body = {"error"}
    /\ DOMAIN resp.body.error = {"message", "code"}
    /\ resp.body.error.message # ""
    /\ resp.body.error.code = StatusInternalServerError

\* C11: a panic raised while a request is handled (heads[0] of an empty head
\* list, usage.Limit of a nil usage record) is recovered and answered with
\* status 500 and the JSON envelope {error: {message, code}} with code 500,
\* and the server goes on to the next request.
C11_PanicIsRecovered ==
    \A r \in Reqs :
        pc[r] = "done" /\ (HeadIndexPanics(r) \/ NilUsagePanics(r))
        => /\ IsErrorEnvelope(response[r])
           /\ ENABLED Finish(r)

\* the period-usage build answered /chat/m1 with the envelope after /me
\* failed and the handler read usage.Limit
C11_Witness ==
    \E r \in Reqs :
        /\ pc[r] = "done"
        /\ NilUsagePanics(r)
        /\ req[r].route = "/chat/:model"
        /\ Failed(backend[r].me)
        /\ IsErrorEnvelope(response[r])
        /\ response[r].body.error.message
              = "invalid memory address or nil pointer dereference"

\* the request c with another auth_token cookie
WithToken(c, a) == [c EXCEPT !.auth_token = a]

\* what the handler of r did does not depend on the auth_token cookie: head
\* resolution and the response are the same for every other token
TokenNotBranchedOn(r) ==
    \A a \in AuthTokens :
        /\ backend[r].heads.called =>
              IF req[r].variant = "token"
              THEN getHeads(WithToken(req[r], a), backend[r].heads)
                       = getHeads(req[r], backend[r].heads)
              ELSE getHeadsPeriod(WithToken(req[r], a), backend[r].heads)
                       = getHeadsPeriod(req[r], backend[r].heads)
        /\ pc[r] \in {"respond", "done"} =>
              Handle(WithToken(req[r], a), loc[r]) = Handle(req[r], loc[r])

\* every call r has issued carries the cookies of the incoming request
CallsCarryCookies(r) ==
    \A i \in 1..Len(calls[r]) :
        /\ calls[r][i].auth_token = req[r].auth_token
        /\ calls[r][i].endpoint = "/v1/models"
              => calls[r][i].LocalAIHead = req[r].LocalAIHead

\* between its arrival and its response the request is not written
RequestKept(r) == pc[r] # "idle" /\ pc'[r] # "idle" => req'[r] = req[r]

\* C12: every outbound call of a request (/heads, /me, /machines,
\* /v1/models) carries an auth_token cookie equal to the request's, the empty
\* one included; the handler neither alters the value nor branches on it; the
\* /v1/models call carries the request's LocalAI-Head cookie as it came in.
C12_CookiesAreRelayed ==
    /\ [](\A r \in Reqs : CallsCarryCookies(r) /\ TokenNotBranchedOn(r))
    /\ [][\A r \in Reqs : RequestKept(r)]_vars

\* a request with token tokA and the unknown head hX has made its three
\* calls, the last one to /v1/models
C12_Witness ==
    \E r \in Reqs :
        /\ pc[r] = "done"
        /\ req[r].auth_token = "tokA"
        /\ req[r].LocalAIHead = "hX"
        /\ Len(calls[r]) = 3
        /\ calls[r][3] = [endpoint |-> "/v1/models", auth_token |-> "tokA",
                          LocalAIHead |-> "hX"]

----------------------------------------------------------------------------
(* Two requests in hand at once: fiber runs each handler in a goroutine of
   its own, so the steps of the two handlers interleave freely *)

ConcurrentReqs == {"r1", "r2"}

\* the requests and backend answers the two handlers draw from; both
\* requests are served by the same build
ConcurrentInputs ==
    /\ \A r, q \in ConcurrentReqs :
          req[r].variant # "none" /\ req[q].variant # "none"
          => req[r].variant = req[q].variant
    /\ \A r \in ConcurrentReqs :
          /\ req[r].route \in {"", "/", "/chat/"}
          /\ req[r].LocalAIHead \in {"", "h1"}
          /\ req[r].ContentType = ""
          /\ req[r].Accept \in {"", "text/html"}
          /\ backend[r].heads \in
                {NotCalled, TransportError(NilSlice),
                 HttpResponse(StatusOK, "ok", MkSlice(<<>>)),
                 HttpResponse(StatusOK, "ok", MkSlice(<<"h2", "h1">>))}
          /\ backend[r].me \in
                {NotCalled, TransportError(ZeroMe), TransportError(ZeroPeriodMe)}
                \cup {HttpResponse(StatusOK, "ok", v) :
                        v \in {m \in MeValues \cup PeriodMeValues :
                                 m.Usage.Limit = 50}}
          /\ backend[r].machines \in
                {NotCalled, TransportError(ZeroMachines)}
                \cup {HttpResponse(StatusOK, "ok", v) :
                        v \in {m \in MachinesValues :
                                 /\ m.TokensTotal = 40
                                 /\ m.WorktimeTotal = Rat(50, 1)
                                 /\ m.Machines = MkMap(NoKeys)}}
          /\ backend[r].models \in
                {NotCalled, TransportError(NilSlice),
                 HttpResponse(StatusOK, "ok", MkSlice(<<>>)),
                 HttpResponse(StatusOK, "ok", MkSlice(<<"m2", "m1">>))}
          /\ (req[r].variant = "plain" => len(loc[r].models) <= 1)

ConcurrentInit ==
    /\ req = [r \in ConcurrentReqs |-> NoRequest]
    /\ pc = [r \in ConcurrentReqs |-> "idle"]
    /\ backend = [r \in ConcurrentReqs |-> NoCalls]
    /\ calls = [r \in ConcurrentReqs |-> <<>>]
    /\ loc = [r \in ConcurrentReqs |-> NoLocals]
    /\ setCookies = [r \in ConcurrentReqs |-> <<>>]
    /\ logged = [r \in ConcurrentReqs |-> <<>>]
    /\ response = [r \in ConcurrentReqs |-> NoResponse]

\* one step of one of the two handlers
ConcurrentNext ==
    \E r \in ConcurrentReqs :
        \/ Serve(r) /\ ConcurrentInputs'
        \/ GetHeads(r) /\ ConcurrentInputs'
        \/ GetMeToken(r) /\ ConcurrentInputs'
        \/ GetMePeriod(r) /\ ConcurrentInputs'
        \/ GetMachines(r) /\ ConcurrentInputs'
        \/ GetModels(r) /\ ConcurrentInputs'
        \/ ListModels(r) /\ ConcurrentInputs'
        \/ Respond(r)
        \/ Finish(r)

ConcurrentSpec == ConcurrentInit /\ [][ConcurrentNext]_vars

\* everything the handler of r holds
Own(r) ==
    <<req[r], pc[r], backend[r], calls[r], loc[r], setCookies[r], logged[r],
      response[r]>>

\* what r holds is a function of its own request and of the answers to its
\* own calls: the head and the cookie come from its /heads answer, the
\* identity and the models from its /me and /v1/models answers, the response
\* from these
DependsOnOwnInputs(r) ==
    LET c == req[r]
        heads == IF c.variant = "token" THEN getHeads(c, backend[r].heads)
                 ELSE getHeadsPeriod(c, backend[r].heads)
    IN /\ IF backend[r].heads.called
          THEN /\ setCookies[r] = heads.cookies
               /\ IF heads.panic
                  THEN loc[r] = NoLocals
                  ELSE loc[r].heads = heads.heads /\ loc[r].head = heads.head
          ELSE setCookies[r] = <<>> /\ loc[r].head = ""
       /\ backend[r].me.called =>
             IF c.variant = "token"
             THEN loc[r].me = getMe(backend[r].me).me
             ELSE /\ loc[r].username = getMePeriod(backend[r].me).username
                  /\ loc[r].usage = getMePeriod(backend[r].me).usage
       /\ backend[r].machines.called =>
             loc[r].machines = getMachines(backend[r].machines).machines
       /\ backend[r].models.called =>
             loc[r].models = IF UsesConfigs(c.variant, c.route)
                             THEN getModelsConfigs(backend[r].models).models
                             ELSE getModels(backend[r].models).models
       /\ pc[r] = "done" =>
             response[r] = IF backend[r].heads.called /\ heads.panic
                           THEN Panicked("index out of range [0] with length 0")
                           ELSE Handle(c, loc[r])

\* the next step of the handler of r, whatever the other handler is doing
StepOf(r) ==
    \/ Serve(r)
    \/ GetHeads(r)
    \/ GetMeToken(r)
    \/ GetMePeriod(r)
    \/ GetMachines(r)
    \/ GetModels(r)
    \/ ListModels(r)
    \/ Respond(r)
    \/ Finish(r)

\* a step of one handler leaves everything the other holds as it was
NoInterference ==
    \A r, q \in ConcurrentReqs : r # q /\ Own(r)' # Own(r) => Own(q)' = Own(q)

\* C13: of two requests handled at once, under every interleaving of their
\* backend calls, each one's head, cookie write, locals and response are
\* determined by its own request and the answers to its own calls; a step of
\* one never changes what the other holds; and whatever call one is waiting
\* in, the other's next step is enabled.
C13_RequestsAreIndependent ==
    /\ [](\A r \in ConcurrentReqs : DependsOnOwnInputs(r) /\ ENABLED StepOf(r))
    /\ [][NoInterference]_vars

\* r1 waits for its /me answer with the defaulted head h2 while r2, which
\* came with the cookie h1, has been answered with its page and wrote no
\* cookie
C13_Witness ==
    /\ pc["r1"] = "getMe"
    /\ req["r1"].LocalAIHead = ""
    /\ loc["r1"].head = "h2"
    /\ Len(setCookies["r1"]) = 1
    /\ pc["r2"] = "done"
    /\ req["r2"].LocalAIHead = "h1"
    /\ loc["r2"].head = "h1"
    /\ setCookies["r2"] = <<>>
    /\ response["r2"].kind = "render"

\* C14: on /chat/:model, /text2image/:model and /tts/:model the response is
\* the rendered page, never a redirect, and its Model is the path parameter
\* as it came in, whether or not the backend lists it, also when the model
\* list is empty or the /v1/models call failed.
C14_ModelRouteRendersParameter ==
    \A r \in Reqs :
        pc[r] = "done" /\ req[r].route \in ModelRoutes
        => /\ response[r].kind = "render"
           /\ response[r].body.Model = req[r].model

\* the ids of the model list the handler of r was given: the data array of
\* the /v1/models answer, or the models the plain build listed itself
GivenModelIds(r) ==
    IF req[r].variant = "plain"
    THEN [i \in 1..len(loc[r].models) |->
            IF UsesConfigs(req[r].variant, req[r].route)
            THEN loc[r].models.elems[i].Name ELSE loc[r].models.elems[i]]
    ELSE backend[r].models.val.elems

\* C15: on /chat/, /talk/, /text2image/ and /tts/ with a non-empty model list
\* the handler does not redirect, and the view model's Model is the first
\* entry of the backend's list (the id, read from the Name of a config
\* record) while ModelsConfig is the whole list in the backend's order.
C15_DefaultModelIsFirst ==
    \A r \in Reqs :
        pc[r] = "done" /\ ModelsResolved(r) /\ len(loc[r].models) > 0
        => /\ response[r].kind # "redirect"
           /\ HasView(response[r]) =>
                 LET view == response[r].body
                     ids == GivenModelIds(r)
                 IN /\ view.Model = ids[1]
                    /\ Len(view.ModelsConfig.elems) = Len(ids)
                    /\ \A i \in 1..Len(ids) :
                          view.ModelsConfig.elems[i]
                              = IF UsesConfigs(req[r].variant, req[r].route)
                                THEN [Name |-> ids[i]] ELSE ids[i]

\* /tts/ of the token-metered build shows m2, the first of the backend's m2,
\* m1, read from the Name of the first config record
C15_Witness ==
    \E r \in Reqs :
        /\ pc[r] = "done"
        /\ req[r].route = "/tts/"
        /\ req[r].variant = "token"
        /\ backend[r].models.called
        /\ ~backend[r].models.err
        /\ backend[r].models.val.elems = <<"m2", "m1">>
        /\ response[r].kind = "render"
        /\ response[r].body.Model = "m2"
        /\ response[r].body.ModelsConfig.elems = <<[Name |-> "m2"], [Name |-> "m1"]>>

\* C16: in the / and /settings view models of the token-metered build ToBurn
\* is the TokensTotal of the /machines answer minus the BurnedTokens of the
\* identity, as plain integer arithmetic, never clamped; it is minus
\* BurnedTokens when the /machines call failed and TokensTotal when the /me
\* call failed.
C16_ToBurnIsRawDifference ==
    \A r \in Reqs :
        ( /\ pc[r] = "done"
          /\ req[r].variant = "token"
          /\ req[r].route \in IndexRoutes
          /\ HasView(response[r]) )
        => LET view == response[r].body
               me == backend[r].me
               machines == backend[r].machines
           IN /\ Succeeded(me) /\ Succeeded(machines)
                 => view.ToBurn = machines.val.TokensTotal - me.val.Usage.BurnedTokens
              /\ Failed(machines) => view.ToBurn = 0 - view.Usage.BurnedTokens
              /\ Failed(me) => view.ToBurn = view.Machines.TokensTotal

\* C17: while one request is handled the LocalAI-Head cookie is written at
\* most once, and only when the /heads call succeeded and the request came
\* without head cookie; when the /heads call failed (transport error,
\* non-success status, malformed JSON) the head list is nil, the selected
\* head is empty and no cookie is written.
C17_HeadCookieWrittenOnceOnSuccess ==
    \A r \in Reqs :
        /\ Len(setCookies[r]) <= 1
        /\ setCookies[r] # <<>>
              => req[r].LocalAIHead = "" /\ Succeeded(backend[r].heads)
        /\ Failed(backend[r].heads)
              => /\ loc[r].heads = NilSlice
                 /\ loc[r].head = ""
                 /\ setCookies[r] = <<>>

\* the orders in which a handler calls the backend
CallOrders ==
    {<<"/heads", "/me", "/machines">>, <<"/heads", "/me", "/v1/models">>}

\* the endpoints r has called so far, in the order of the calls
Endpoints(r) == [i \in 1..Len(calls[r]) |-> calls[r][i].endpoint]

IsPrefix(s, t) == Len(s) <= Len(t) /\ \A i \in 1..Len(s) : s[i] = t[i]

\* the answers r holds
Answered(r) ==
    {e \in {"heads", "me", "machines", "models"} : backend[r][e].called}

\* r has called the backend in order, and holds the answer of every call it
\* has issued
CallsInOrder(r) ==
    /\ Len(calls[r]) <= 4
    /\ \E o \in CallOrders : IsPrefix(Endpoints(r), o)
    /\ Cardinality(Answered(r)) = Len(calls[r])

\* a step issues at most one call, and none once the response is chosen
OneCallAtATime(r) ==
    /\ Len(calls'[r]) <= Len(calls[r]) + 1
    /\ response[r] # NoResponse => calls'[r] = calls[r] \/ calls'[r] = <<>>

\* C18: every request issues between 0 and 4 backend calls, one after
\* another in the fixed order /heads, /me, then /machines or /v1/models, each
\* issued when the answer to the one before is in hand, and none after the
\* response (page, JSON or redirect) has been chosen.
C18_CallsAreSequential ==
    /\ [](\A r \in Reqs : CallsInOrder(r))
    /\ [][\A r \in Reqs : OneCallAtATime(r)]_vars

\* /settings has been answered with its page after the calls to /heads, /me
\* and /machines, in this order
C18_Witness ==
    \E r \in Reqs :
        /\ pc[r] = "done"
        /\ req[r].route = "/settings"
        /\ Endpoints(r) = <<"/heads", "/me", "/machines">>
        /\ response[r].kind = "render"

\* the LocalAI-Head values r has sent to the backend
HeadsSent(r) ==
    {calls[r][i].LocalAIHead :
        i \in {j \in 1..Len(calls[r]) : "LocalAIHead" \in DOMAIN calls[r][j]}}

\* r came without head cookie and getHeads selected heads[0] for it
HeadDefaulted(r) ==
    /\ req[r].LocalAIHead = ""
    /\ loc[r].head # ""
    /\ setCookies[r] = <<HeadCookie(loc[r].head)>>

\* C19: in the request in which the head is defaulted, the /v1/models call
\* made afterwards forwards the incoming, empty LocalAI-Head cookie and not
\* the head just selected: no call of that request carries the selected
\* head.  The backend sees it only from a request that comes in with the
\* cookie, whose /v1/models call forwards the cookie.
C19_DefaultedHeadNotForwarded ==
    \A r \in Reqs :
        /\ HeadDefaulted(r) => HeadsSent(r) \subseteq {""}
        /\ HeadDefaulted(r) /\ backend[r].models.called => HeadsSent(r) = {""}
        /\ req[r].LocalAIHead # "" /\ backend[r].models.called
              => HeadsSent(r) = {req[r].LocalAIHead}

\* /chat/ without head cookie: h2 was selected and written to the response,
\* and the /v1/models call went out with an empty LocalAI-Head
C19_Witness ==
    \E r \in Reqs :
        /\ pc[r] = "done"
        /\ req[r].route = "/chat/"
        /\ HeadDefaulted(r)
        /\ loc[r].head = "h2"
        /\ Len(calls[r]) = 3
        /\ calls[r][3].endpoint = "/v1/models"
        /\ calls[r][3].LocalAIHead = ""

\* the /heads answer of r passed the checks of its build and decoded to a
\* list: getHeads reached the selection of the head
HeadsDecoded(r) ==
    /\ backend[r].heads.called
    /\ ~backend[r].heads.err
    /\ backend[r].heads.kind = "ok"
    /\ (req[r].variant = "token" => backend[r].heads.status = StatusOK)

\* C20: once /heads has answered a list, a non-empty LocalAI-Head cookie is
\* the selected head without any check against that list: also for a value
\* the list does not hold, and for an empty list, the head is the cookie
\* value, no cookie is written, heads[0] is not evaluated and the handler
\* goes on to its identity call.
C20_CookieIsTakenUnchecked ==
    \A r \in Reqs :
        req[r].LocalAIHead # "" /\ HeadsDecoded(r)
        => /\ loc[r].head = req[r].LocalAIHead
           /\ loc[r].heads = backend[r].heads.val
           /\ setCookies[r] = <<>>
           /\ ~HeadIndexPanics(r)
           /\ pc[r] # "getHeads"
           /\ (pc[r] = "done" => backend[r].me.called)

\* the backend answered an empty head list to a request with the cookie hX:
\* the page is rendered with the head hX
C20_Witness ==
    \E r \in Reqs :
        /\ pc[r] = "done"
        /\ req[r].LocalAIHead = "hX"
        /\ HeadsDecoded(r)
        /\ len(backend[r].heads.val) = 0
        /\ loc[r].head = "hX"
        /\ response[r].kind = "render"
        /\ response[r].body.Head = "hX"

\* r has been redirected from a default route it asked for without head
\* cookie, after /heads had answered a list
RedirectedAfterDefaulting(r) ==
    /\ pc[r] = "done"
    /\ req[r].route \in DefaultRoutes
    /\ response[r].kind = "redirect"
    /\ req[r].LocalAIHead = ""
    /\ HeadsDecoded(r)

\* the cookie is written while the handler has neither asked for the models
\* nor chosen its response
CookieWrittenBeforeModels(r) ==
    setCookies'[r] # setCookies[r] /\ setCookies'[r] # <<>>
    => /\ ~backend[r].models.called
       /\ response[r] = NoResponse
       /\ ~backend'[r].models.called

\* C21: on /chat/, /talk/, /text2image/ and /tts/ the head is resolved and its
\* cookie written before the empty-model-list check: a request without head
\* cookie that ends in the redirect to the site root still carries
\* LocalAI-Head set to the first head of the backend's list, and the /heads
\* and /me calls were issued before the /v1/models call.
C21_RedirectKeepsHeadCookie ==
    /\ [](\A r \in Reqs :
            RedirectedAfterDefaulting(r)
            => /\ len(backend[r].heads.val) > 0
               /\ setCookies[r] = <<HeadCookie(backend[r].heads.val.elems[1])>>
               /\ response[r].location = BaseURL(req[r])
               /\ Endpoints(r) = <<"/heads", "/me", "/v1/models">>)
    /\ [][\A r \in Reqs : CookieWrittenBeforeModels(r)]_vars

\* /talk/ without head cookie was redirected because /v1/models failed; the
\* response carries LocalAI-Head=h2, the first of the backend's h2, h1
C21_Witness ==
    \E r \in Reqs :
        /\ RedirectedAfterDefaulting(r)
        /\ req[r].route = "/talk/"
        /\ backend[r].heads.val.elems = <<"h2", "h1">>
        /\ Failed(backend[r].models)
        /\ setCookies[r] = <<HeadCookie("h2")>>

\* the answer resp with another status and the same body
WithStatus(resp, status) == [resp EXCEPT !.status = status]

\* the call was answered, with a status other than 200
NotOK(resp) == resp.called /\ ~resp.err /\ resp.status # StatusOK

\* msg is among the errors the handler of r has logged
HasLogged(r, msg) == \E i \in 1..Len(logged[r]) : logged[r][i] = msg

\* the models r holds are those of the body of its /v1/models answer, and
\* the same whatever the status of that answer
ModelsFromBodyAlone(r) ==
    LET resp == backend[r].models
        configs == UsesConfigs(req[r].variant, req[r].route)
    IN /\ \A s \in {StatusOK, StatusInternalServerError} :
             /\ getModels(WithStatus(resp, s)) = getModels(resp)
             /\ getModelsConfigs(WithStatus(resp, s)) = getModelsConfigs(resp)
       /\ resp.kind = "ok" =>
             /\ loc[r].models = IF configs
                                THEN MkSlice(rangeConfigs(<<>>, resp.val.elems, 1))
                                ELSE MkSlice(rangeIDs(<<>>, resp.val.elems, 1))
             /\ ~HasLogged(r, "getModels")

\* C22: the models call does not branch on the HTTP status: the model list is
\* a function of the body alone, and a non-success /v1/models answer whose
\* body decodes yields its list with no error; in the token-metered build
\* getHeads, getMe and getMachines return an error and their zero value on
\* every status other than 200.
C22_OnlyModelsIgnoresStatus ==
    \A r \in Reqs :
        /\ backend[r].models.called /\ ~backend[r].models.err
              => ModelsFromBodyAlone(r)
        /\ req[r].variant = "token" /\ NotOK(backend[r].heads)
              => /\ getHeads(req[r], backend[r].heads) = HeadsError
                 /\ loc[r].heads = NilSlice /\ loc[r].head = ""
                 /\ HasLogged(r, "getHeads")
        /\ req[r].variant = "token" /\ NotOK(backend[r].me)
              => /\ getMe(backend[r].me) = [me |-> ZeroMe, err |-> TRUE]
                 /\ loc[r].me = ZeroMe
        /\ req[r].variant = "token" /\ NotOK(backend[r].machines)
              => /\ getMachines(backend[r].machines)
                       = [machines |-> ZeroMachines, err |-> TRUE]
                 /\ loc[r].machines = ZeroMachines

\* /chat/ of the token-metered build: /heads answered 500 with a list and
\* the handler holds no head, /v1/models answered 500 with m2 and the page
\* shows m2
C22_Witness ==
    \E r \in Reqs :
        /\ pc[r] = "done"
        /\ req[r].variant = "token"
        /\ req[r].route = "/chat/"
        /\ NotOK(backend[r].heads)
        /\ backend[r].heads.val = MkSlice(<<"h1">>)
        /\ loc[r].heads = NilSlice
        /\ NotOK(backend[r].me)
        /\ NotOK(backend[r].models)
        /\ backend[r].models.kind = "ok"
        /\ loc[r].models = MkSlice(<<"m2">>)
        /\ response[r].kind = "render"
        /\ response[r].body.Model = "m2"

====
